---- MODULE Spec2Model ----
(***************************************************************************)
(* DECIDR (src/app.py): the Streamlit script's `if submitted:` block and   *)
(* the decision scoring engine compute_options.                            *)
(*                                                                         *)
(* Numbers.  Python floats are modelled as exact rationals [n, d] with     *)
(* d > 0, kept in lowest terms; float("inf") is Inf (d = 0).  Money is in  *)
(* pounds.  annual_kwh is held in THOUSANDS of kWh: every use of           *)
(* annual_kwh in compute_options is divided by 1000.0 (lines 50, 62, 68,   *)
(* 71, 74, 107), so the unit absorbs exactly that division and lets the    *)
(* machine integers reach the CAPEX ceiling.                               *)
(***************************************************************************)
EXTENDS Integers, Sequences, FiniteSets, TLC

VARIABLES pc, annual_bill, annual_kwh, budget, feasibility, include_batt,
          options, exc, options_sorted, chosen

vars == <<pc, annual_bill, annual_kwh, budget, feasibility, include_batt,
          options, exc, options_sorted, chosen>>

\* ------------------------------------------------------------ bounds
\* The consumption grid adds the multiples k * 2,000,000 MWh, k in
\* 1..MaxKwhSteps (the sizes at which the raw CAPEX estimate leaves the
\* floor and reaches the ceiling).
MaxKwhSteps == 4

\* ------------------------------------------------------------ rationals
Abs(x) == IF x < 0 THEN -x ELSE x

RECURSIVE Gcd(_, _)
Gcd(a, b) == IF b = 0 THEN a ELSE Gcd(b, a % b)

Norm(n, d) == LET g == Gcd(Abs(n), d) IN [n |-> n \div g, d |-> d \div g]

R(n) == [n |-> n, d |-> 1]
Dec(n, d) == Norm(n, d)
Inf == [n |-> 1, d |-> 0]
IsInf(x) == x.d = 0

RAdd(a, b) == LET g == Gcd(a.d, b.d)
              IN  Norm(a.n * (b.d \div g) + b.n * (a.d \div g), (a.d \div g) * b.d)
RNeg(a) == [n |-> -a.n, d |-> a.d]
RSub(a, b) == RAdd(a, RNeg(b))
RMul(a, b) == LET g1 == Gcd(Abs(a.n), b.d)
                  g2 == Gcd(Abs(b.n), a.d)
              IN  [n |-> (a.n \div g1) * (b.n \div g2),
                   d |-> (a.d \div g2) * (b.d \div g1)]
\* a / b for b > 0
RDiv(a, b) == RMul(a, [n |-> b.d, d |-> b.n])
\* a < b for finite a, b: by the integer parts, then by the fractional
\* remainders (which keeps the cross products small)
RLt(a, b) ==
    LET ia == a.n \div a.d
        ib == b.n \div b.d
    IN  IF ia # ib THEN ia < ib
        ELSE (a.n % a.d) * b.d < (b.n % b.d) * a.d
RLe(a, b) == ~RLt(b, a)
RMax(a, b) == IF RLt(a, b) THEN b ELSE a
RMin(a, b) == IF RLt(b, a) THEN b ELSE a

\* ------------------------------------------------------------ names
\* Names bound in the module's global scope when compute_options runs:
\* the imports of lines 1-6 and the top-level assignments and defs.
ModuleGlobals ==
    {"st", "BytesIO", "A4", "SimpleDocTemplate", "Paragraph", "Spacer",
     "Table", "TableStyle", "getSampleStyleSheet", "colors",
     "org_name", "location", "annual_elec_kwh", "annual_bill_gbp",
     "carbon_target_year", "budget_gbp", "roof_or_land", "include_battery",
     "submitted", "fmt_gbp", "compute_options", "build_pdf"}

\* The builtins compute_options uses.
Builtins == {"max", "min", "float", "sorted"}

\* Python's lookup of a global name: module globals, then builtins,
\* otherwise NameError.
NameBound(name) == name \in ModuleGlobals \cup Builtins

\* ------------------------------------------------------------ inputs
HIGH == "High (good roof/land)"
MEDIUM == "Medium"
LOW == "Low / constrained"
Feasibilities == {HIGH, MEDIUM, LOW}

BillValues == {0, 1000, 500000, 2000000}
KwhValues == {0, 1000, 3500} \cup {2000000 * k : k \in 1..MaxKwhSteps}
BudgetValues == {0, 100000, 1000000, 4500000, 9000000}

\* ------------------------------------------------------------ engine
\* line 40: the feasibility multiplier
feas_mult(feas) ==
    CASE feas = HIGH -> Dec(100, 100)
      [] feas = MEDIUM -> Dec(75, 100)
      [] feas = LOW -> Dec(45, 100)

\* lines 44-46: the on-site savings fraction
save_frac(feas, batt) ==
    IF batt THEN RMul(Dec(70, 100), feas_mult(feas))
            ELSE RMul(Dec(55, 100), feas_mult(feas))

\* line 50: the raw estimate (annual_kwh * 1.15) * feas_mult / 1000.0
raw_capex(kwh, feas) == RMul(RMul(R(kwh), Dec(115, 100)), feas_mult(feas))

\* mutant: the ceiling of line 50 left out
clamped_capex_no_ceiling(kwh, feas) == RMax(R(500000), raw_capex(kwh, feas))

\* line 50: max(500000.0, min(8000000.0, raw))
clamped_capex(kwh, feas) ==
    RMax(R(500000), RMin(R(8000000), raw_capex(kwh, feas)))

\* lines 52-54: phased deployment when a positive budget is lower
phased(kwh, bud, feas) == bud > 0 /\ RLt(R(bud), clamped_capex(kwh, feas))

\* mutant: the `budget > 0` gate of line 53 left out
capex_solar_batt_ungated(kwh, bud, feas) ==
    IF RLt(R(bud), clamped_capex(kwh, feas)) THEN R(bud)
    ELSE clamped_capex(kwh, feas)

\* lines 50-55: the on-site CAPEX
capex_solar_batt(kwh, bud, feas) ==
    IF phased(kwh, bud, feas) THEN R(bud) ELSE clamped_capex(kwh, feas)

\* line 57
annual_savings(bill, feas, batt) == RMul(R(bill), save_frac(feas, batt))

\* mutant: no savings give a payback of 0 instead of float("inf")
payback_zero(capex, savings) ==
    IF RLt(R(0), savings) THEN RDiv(capex, savings) ELSE R(0)

\* lines 58 and 67: capex / savings if savings > 0 else float("inf")
payback(capex, savings) ==
    IF RLt(R(0), savings) THEN RDiv(capex, savings) ELSE Inf

\* line 61
co2_factor == Dec(20, 100)

\* line 62
co2_saved_t(kwh, feas, batt) ==
    RMul(RMul(R(kwh), save_frac(feas, batt)), co2_factor)

\* lines 65-68: the PPA option
capex_ppa == R(25000)
savings_ppa(bill, feas) == RMul(R(bill), RMul(Dec(18, 100), feas_mult(feas)))
co2_saved_ppa_t(kwh) == RMul(RMul(R(kwh), Dec(30, 100)), co2_factor)

\* lines 71-74: the offsets option
capex_offsets(kwh) == RMul(RMul(R(kwh), co2_factor), R(30))
savings_offsets == R(0)
payback_offsets == Inf
co2_saved_offsets_t(kwh) == RMul(R(kwh), co2_factor)

\* lines 78, 83: the on-site record's texts
NAME_BATT == "Install Solar + Battery"
NAME_NOBATT == "Install Solar (no battery)"
NAME_PPA == "Renewable PPA (Power Purchase Agreement)"
NAME_OFFSETS == "Buy Verified Offsets"
NOTE_PHASED == "Phased to match budget."
NOTE_ONSITE == "On-site generation reduces bills and exposure to volatility."
NOTE_PPA == "Low CAPEX; contractual green supply; depends on counterparty and terms."
NOTE_OFFSETS == "Improves reporting but does not reduce energy costs; quality varies."

onsite_name(batt) == IF batt THEN NAME_BATT ELSE NAME_NOBATT
onsite_notes(kwh, bud, feas) ==
    IF phased(kwh, bud, feas) THEN NOTE_PHASED ELSE NOTE_ONSITE

\* lines 76-101: the options list, in the order on-site, PPA, offsets
build_options(bill, kwh, bud, feas, batt) ==
    << [name |-> onsite_name(batt),
        capex |-> capex_solar_batt(kwh, bud, feas),
        annual_savings |-> annual_savings(bill, feas, batt),
        payback_years |-> payback(capex_solar_batt(kwh, bud, feas),
                                  annual_savings(bill, feas, batt)),
        co2_saved_t |-> co2_saved_t(kwh, feas, batt),
        notes |-> onsite_notes(kwh, bud, feas)],
       [name |-> NAME_PPA,
        capex |-> capex_ppa,
        annual_savings |-> savings_ppa(bill, feas),
        payback_years |-> payback(capex_ppa, savings_ppa(bill, feas)),
        co2_saved_t |-> co2_saved_ppa_t(kwh),
        notes |-> NOTE_PPA],
       [name |-> NAME_OFFSETS,
        capex |-> capex_offsets(kwh),
        annual_savings |-> savings_offsets,
        payback_years |-> payback_offsets,
        co2_saved_t |-> co2_saved_offsets_t(kwh),
        notes |-> NOTE_OFFSETS] >>

\* line 106: 0 if math.isinf(pb) else max(0.0, 10.0 - pb)
pb_score(pb) == IF IsInf(pb) THEN R(0) ELSE RMax(R(0), RSub(R(10), pb))

\* line 107: the composite score, once the names of line 106 have resolved
score_value(o, bill, kwh) ==
    RAdd(RAdd(RMul(RDiv(o.annual_savings, RMax(R(bill), R(1))), R(10)),
              pb_score(o.payback_years)),
         RMul(RDiv(o.co2_saved_t,
                   RMax(RMul(R(kwh), co2_factor), Dec(1, 1000000))),
              R(5)))

\* lines 105-107 for one record: evaluating `math.isinf` looks the global
\* name `math` up first; an unbound name raises NameError before any
\* arithmetic and before o["score"] is assigned.
score_of(o, bill, kwh) ==
    IF NameBound("math")
    THEN [exc |-> "none", score |-> score_value(o, bill, kwh)]
    ELSE [exc |-> "NameError", score |-> R(0)]

with_score(o, s) ==
    [name |-> o.name, capex |-> o.capex, annual_savings |-> o.annual_savings,
     payback_years |-> o.payback_years, co2_saved_t |-> o.co2_saved_t,
     notes |-> o.notes, score |-> s]

\* lines 104-107: the loop stops at the first record whose scoring raises
score_loop(opts, bill, kwh) ==
    IF \E i \in 1..Len(opts) : score_of(opts[i], bill, kwh).exc # "none"
    THEN [exc |-> "NameError", options |-> opts]
    ELSE [exc |-> "none",
          options |-> [i \in 1..Len(opts) |->
                          with_score(opts[i], score_of(opts[i], bill, kwh).score)]]

\* line 109: sorted(options, key=score, reverse=True) is stable: a record
\* goes after every record already placed whose score is >= its own.
RECURSIVE insert_desc(_, _)
insert_desc(acc, x) ==
    IF acc = <<>> THEN <<x>>
    ELSE IF RLt(Head(acc).score, x.score) THEN <<x>> \o acc
    ELSE <<Head(acc)>> \o insert_desc(Tail(acc), x)

RECURSIVE sorted_desc(_)
sorted_desc(s) ==
    IF s = <<>> THEN <<>>
    ELSE insert_desc(sorted_desc(SubSeq(s, 1, Len(s) - 1)), s[Len(s)])

\* lines 34-110: compute_options, as the outcome of one call: the exception
\* that leaves it (or "none"), its local options list at that point and the
\* returned list (empty when nothing is returned).
compute_options(bill, kwh, bud, feas, batt) ==
    LET scored == score_loop(build_options(bill, kwh, bud, feas, batt), bill, kwh)
    IN  IF scored.exc # "none"
        THEN [exc |-> scored.exc, options |-> scored.options, ret |-> <<>>]
        ELSE [exc |-> "none", options |-> scored.options,
              ret |-> sorted_desc(scored.options)]

\* ------------------------------------------------------------ the script
\* lines 23-29: the form's defaults; nothing has been computed
Init ==
    /\ pc = "form"
    /\ annual_bill = 2000000
    /\ annual_kwh = 3500
    /\ budget = 4500000
    /\ feasibility = HIGH
    /\ include_batt = TRUE
    /\ options = <<>>
    /\ exc = "none"
    /\ options_sorted = <<>>
    /\ chosen = <<>>

\* lines 20-29: the user fills the form and presses the submit button
Submit ==
    /\ pc = "form"
    /\ \E b \in BillValues, k \in KwhValues, bud \in BudgetValues,
          f \in Feasibilities, batt \in BOOLEAN :
          /\ annual_bill' = b
          /\ annual_kwh' = k
          /\ budget' = bud
          /\ feasibility' = f
          /\ include_batt' = batt
    /\ pc' = "submitted"
    /\ UNCHANGED <<options, exc, options_sorted, chosen>>

\* lines 187-189: the call of compute_options and chosen = options_sorted[0];
\* an exception ends the script run there
RunSubmitted ==
    /\ pc = "submitted"
    /\ LET r == compute_options(annual_bill, annual_kwh, budget,
                                feasibility, include_batt)
       IN  /\ exc' = r.exc
           /\ options' = r.options
           /\ options_sorted' = r.ret
           /\ chosen' = IF r.exc = "none" THEN <<r.ret[1]>> ELSE <<>>
    /\ pc' = "done"
    /\ UNCHANGED <<annual_bill, annual_kwh, budget, feasibility, include_batt>>

\* Streamlit runs the script again from the top on the next interaction;
\* the widgets keep their values, the script's variables start afresh
Rerun ==
    /\ pc = "done"
    /\ pc' = "form"
    /\ options' = <<>>
    /\ exc' = "none"
    /\ options_sorted' = <<>>
    /\ chosen' = <<>>
    /\ UNCHANGED <<annual_bill, annual_kwh, budget, feasibility, include_batt>>

Next == Submit \/ RunSubmitted \/ Rerun

Spec == Init /\ [][Next]_vars

\* ------------------------------------------------------------ claims
Fields == {"name", "capex", "annual_savings", "payback_years",
           "co2_saved_t", "notes", "score"}

\* the on-site, PPA and offsets records compute_options built (lines 76-101)
Built == pc = "done" /\ Len(options) = 3

\* C1: every valid call of compute_options completes without raising and
\* returns a list of three records, each carrying name, capex,
\* annual_savings, payback_years, co2_saved_t, notes and score.
C1_TotalAndComplete ==
    pc = "done" =>
        /\ exc = "none"
        /\ Len(options_sorted) = 3
        /\ \A i \in 1..3 : DOMAIN options_sorted[i] = Fields

\* C2: the returned list has exactly three records, one on-site, one PPA,
\* one offsets, in non-strictly descending score order, so the record the
\* caller recommends (index 0) has the maximal score.
C2_ThreeSortedDescending ==
    pc = "done" =>
        /\ Len(options_sorted) = 3
        /\ {options_sorted[i].name : i \in 1..3}
              = {onsite_name(include_batt), NAME_PPA, NAME_OFFSETS}
        /\ \A i \in 1..2 : RLe(options_sorted[i + 1].score, options_sorted[i].score)
        /\ chosen = <<options_sorted[1]>>
        /\ \A i \in 1..3 : RLe(options_sorted[i].score, chosen[1].score)

\* the case of C3 and C6: a positive budget below the clamped estimate
BudgetBelowEstimate ==
    budget > 0 /\ RLt(R(budget), clamped_capex(annual_kwh, feasibility))

\* C3 as stated: the on-site capex is within [500000, budget] when the
\* budget is positive and below the clamped estimate, and within
\* [500000, 8000000] otherwise.
C3_CapexRangeAsStated ==
    Built =>
        LET c == options[1].capex
        IN  IF BudgetBelowEstimate
            THEN RLe(R(500000), c) /\ RLe(c, R(budget))
            ELSE RLe(R(500000), c) /\ RLe(c, R(8000000))

\* C3 amended: when the budget is positive and below the clamped estimate
\* the on-site capex equals the budget, hence is within [500000, budget]
\* only for a budget of at least 500000 and is below 500000 for a smaller
\* one; in every other case it is within [500000, 8000000].
C3_CapexRange ==
    Built =>
        LET c == options[1].capex
        IN  IF BudgetBelowEstimate
            THEN /\ c = R(budget)
                 /\ RLt(c, R(8000000))
                 /\ (budget >= 500000 => RLe(R(500000), c))
                 /\ (budget < 500000 => RLt(c, R(500000)))
            ELSE RLe(R(500000), c) /\ RLe(c, R(8000000))

C3_Witness ==
    /\ Built
    /\ BudgetBelowEstimate
    /\ budget = 100000
    /\ options[1].capex = R(100000)

\* C4: for annual_kwh = 3,500,000, annual_bill = 2,000,000, budget =
\* 4,500,000, feasibility High and battery included, the on-site record has
\* capex 4,025,000, annual_savings 1,400,000 and payback_years 2.875.
C4_Scenario1 ==
    (/\ Built
     /\ annual_kwh = 3500 /\ annual_bill = 2000000 /\ budget = 4500000
     /\ feasibility = HIGH /\ include_batt) =>
        /\ options[1].capex = R(4025000)
        /\ options[1].annual_savings = R(1400000)
        /\ options[1].payback_years = Dec(2875, 1000)

C6_Phasing ==
    Built =>
        LET o == options[1]
            frac == RMul(IF include_batt THEN Dec(70, 100) ELSE Dec(55, 100),
                         feas_mult(feasibility))
        IN  /\ (o.capex = R(budget) /\ o.notes = NOTE_PHASED) <=> BudgetBelowEstimate
            /\ ~BudgetBelowEstimate =>
                  /\ o.capex = clamped_capex(annual_kwh, feasibility)
                  /\ o.notes = NOTE_ONSITE
            /\ o.name = IF include_batt THEN NAME_BATT ELSE NAME_NOBATT
            /\ o.annual_savings = RMul(R(annual_bill), frac)
            /\ o.co2_saved_t = RMul(RMul(R(annual_kwh), frac), Dec(20, 100))

C6_Witness ==
    /\ Built
    /\ BudgetBelowEstimate
    /\ options[1].notes = NOTE_PHASED
    /\ options[1].capex = R(budget)
    /\ RLt(R(500000), clamped_capex(annual_kwh, feasibility))

\* the place of a record in the fixed identity order on-site, PPA, offsets
IdentityRank(name) ==
    CASE name = NAME_PPA -> 2
      [] name = NAME_OFFSETS -> 3
      [] OTHER -> 1

\* C7: records of equal score appear in the returned list in the identity
\* order on-site, PPA, offsets; with annual_bill = 0 and annual_kwh = 0 all
\* three scores are equal and the returned order is on-site, PPA, offsets.
C7_TiesKeepIdentityOrder ==
    pc = "done" =>
        /\ Len(options_sorted) = 3
        /\ \A i \in 1..3 : \A j \in 1..3 :
              (i < j /\ options_sorted[i].score = options_sorted[j].score) =>
                  IdentityRank(options_sorted[i].name)
                      < IdentityRank(options_sorted[j].name)
        /\ (annual_bill = 0 /\ annual_kwh = 0) =>
              /\ options_sorted[1].score = options_sorted[3].score
              /\ <<options_sorted[1].name, options_sorted[2].name,
                   options_sorted[3].name>>
                    = <<onsite_name(include_batt), NAME_PPA, NAME_OFFSETS>>

\* payback values on both sides of the 10-year cap
PaybackSamples == {R(0), Dec(1, 2), R(5), Dec(19, 2), R(10), R(12), R(40)}

\* C8: for the fixed annual_bill and annual_kwh, the score computed for a
\* record does not decrease when its annual_savings or its co2_saved_t
\* grows, strictly decreases in payback_years below 10, and is the same for
\* every payback_years of 10 or more and for an infinite one.
C8_ScoreMonotone ==
    pc = "done" =>
        \A i \in 1..Len(options) :
            LET o == options[i]
                sc(x) == score_of(x, annual_bill, annual_kwh)
                at(p) == sc([o EXCEPT !.payback_years = p]).score
                total == RMax(RMul(R(annual_kwh), co2_factor), Dec(1, 1000000))
            IN  /\ sc(o).exc = "none"
                /\ \A d \in {R(1000), R(100000)} :
                      RLe(sc(o).score,
                          sc([o EXCEPT !.annual_savings = RAdd(@, d)]).score)
                /\ \A d \in {Dec(1, 2), R(1)} :
                      RLe(sc(o).score,
                          sc([o EXCEPT !.co2_saved_t = RAdd(@, RMul(d, total))]).score)
                /\ \A p \in PaybackSamples : \A q \in PaybackSamples :
                      /\ (RLt(p, q) /\ RLt(p, R(10))) => RLt(at(q), at(p))
                      /\ RLe(R(10), q) => at(q) = at(R(10))
                /\ at(Inf) = at(R(10))

\* C9: with annual_bill = 0 and annual_kwh > 0 all three records have an
\* infinite payback and no savings, and the offsets record is returned
\* first with a score strictly above the two others, so the recommended
\* option is "Buy Verified Offsets".
C9_ZeroBillRecommendsOffsets ==
    (pc = "done" /\ annual_bill = 0 /\ annual_kwh > 0) =>
        /\ \A i \in 1..3 : /\ IsInf(options[i].payback_years)
                           /\ options[i].annual_savings = R(0)
        /\ Len(options_sorted) = 3
        /\ options_sorted[1].name = NAME_OFFSETS
        /\ \A i \in 2..3 : RLt(options_sorted[i].score, options_sorted[1].score)
        /\ chosen = <<options_sorted[1]>>

\* C10: with the other inputs fixed, a lower positive budget never gives
\* the on-site record a lower score: its capex and payback_years are no
\* greater, its annual_savings and co2_saved_t are the same.
C10_LowerBudgetNeverLowersScore ==
    pc = "done" =>
        \A b \in BudgetValues :
            (0 < b /\ b < budget) =>
                LET lo == compute_options(annual_bill, annual_kwh, b,
                                          feasibility, include_batt)
                IN  /\ RLe(lo.options[1].capex, options[1].capex)
                    /\ lo.options[1].annual_savings = options[1].annual_savings
                    /\ lo.options[1].co2_saved_t = options[1].co2_saved_t
                    /\ exc = "none" /\ lo.exc = "none"
                    /\ RLe(options[1].score, lo.options[1].score)

====
